---- MODULE Spec2Model ----
(***************************************************************************)
(* Alert evaluation engine of stock_alerts_project.                        *)
(*                                                                         *)
(* Prices are the stored two-decimal prices counted in a small integer     *)
(* unit, times are integer minutes.  The database tables are the variables *)
(* alerts, triggered_alerts and stock_price; a running evaluation cycle    *)
(* (AlertProcessor.process_all_alerts) keeps, per caller, the model        *)
(* instances it loaded (active_alerts), its position in the loop (idx) and *)
(* its result counters (results).  The receivers of signals.py are         *)
(* connected: every Alert.save() runs alert_pre_save and every             *)
(* TriggeredAlert.save() runs triggered_alert_post_save.                   *)
(*                                                                         *)
(* Spec runs the cycles one after another on one alert; SpecBatch runs     *)
(* them over two alerts with statements of process_alert that may raise;   *)
(* SpecOverlap lets the scheduled task and the manual endpoint run cycles  *)
(* at the same time as each other and as the owner's requests; SpecRace    *)
(* does the same with no request and no price change; SpecCleanup adds the *)
(* cleanup task to sequential cycles over two alerts; SpecRequests is the  *)
(* owner editing one alert with every writable field.                      *)
(***************************************************************************)
EXTENDS Integers, Sequences, FiniteSets, TLC

\* ----- bounds of the model ------------------------------------------------
MaxPrice == 2
MaxTime == 2
MaxDuration == 1
MaxRecords == 2

\* ----- program constants --------------------------------------------------
\* condition_met_since / duration_minutes are nullable columns
NULL == -1

\* The alerts of the per-alert specification: one alert of one user on the stock
AlertIds == {1}
\* The callers of process_all_alerts: the scheduled Celery task and the manual
\* test_process_alerts endpoint
Workers == {"task", "endpoint"}
Prices == 1..MaxPrice
\* The threshold prices users ask for: below, at and above them lie prices
Thresholds == {1, 2}
Durations == 1..MaxDuration
CONDITIONS == {">", "<", ">=", "<="}

VARIABLES
    alerts,            \* Alert table: id -> row
    triggered_alerts,  \* TriggeredAlert table, in insertion order
    stock_price,       \* Stock.current_price of the tracked stock
    now,               \* timezone.now(), minutes
    pc,                \* per worker: "idle", "loop" (inside process_all_alerts)
                       \*   or "raised" (process_all_alerts raised to its caller)
    active_alerts,     \* per worker: the Alert instances the cycle loaded
    idx,               \* per worker: position of the for loop
    results,           \* per worker: {processed, triggered, errors}
    last_observed,     \* history: per alert, the price its last evaluation
                       \*   tested, kept while condition_met_since is set
    eval_false_since,  \* history: per alert, an evaluation found the comparator
                       \*   false since condition_met_since was last set
    price_false_since, \* history: per alert, a price update gave the stock a
                       \*   price the comparator was false for since
                       \*   condition_met_since was last set
    cycle_facts        \* history: per worker, how many records the running
                       \*   cycle has created, how many of its iterations
                       \*   had a statement raise, and what its last
                       \*   notification dispatch returned

vars == <<alerts, triggered_alerts, stock_price, now, pc, active_alerts, idx,
          results, last_observed, eval_false_since, price_false_since,
          cycle_facts>>

\* ----- Alert model --------------------------------------------------------

\* Alert.check_condition with '>=' compared as '>'
check_condition_strict(condition, current_price, threshold_price) ==
    IF condition = ">" THEN current_price > threshold_price
    ELSE IF condition = "<" THEN current_price < threshold_price
    ELSE IF condition = ">=" THEN current_price > threshold_price
    ELSE IF condition = "<=" THEN current_price <= threshold_price
    ELSE FALSE

\* Alert.check_condition
check_condition(condition, current_price, threshold_price) ==
    IF condition = ">" THEN current_price > threshold_price
    ELSE IF condition = "<" THEN current_price < threshold_price
    ELSE IF condition = ">=" THEN current_price >= threshold_price
    ELSE IF condition = "<=" THEN current_price <= threshold_price
    ELSE FALSE

\* Variant of alert_pre_save that leaves the instance as it is
alert_pre_save_keep(instance) == instance

\* signals.alert_pre_save: applied to the instance on every Alert.save()
alert_pre_save(instance) ==
    IF ~instance.is_active /\ instance.condition_met_since # NULL
    THEN [instance EXCEPT !.condition_met_since = NULL]
    ELSE instance

\* The columns of an Alert row written by a full save()
Row(instance) ==
    [alert_type |-> instance.alert_type,
     condition |-> instance.condition,
     threshold_price |-> instance.threshold_price,
     duration_minutes |-> instance.duration_minutes,
     is_active |-> instance.is_active,
     condition_met_since |-> instance.condition_met_since]

\* Alert.save(): pre_save signal, then every column of the row is written
\* from the instance.  Returns the instance and the table.
save(db, instance) ==
    LET inst == alert_pre_save(instance) IN
    [alert |-> inst, db |-> [db EXCEPT ![inst.id] = Row(inst)]]

\* Alert.save(update_fields=[field]): pre_save signal, one column written
save_update_fields(db, instance, field) ==
    LET inst == alert_pre_save(instance) IN
    [alert |-> inst,
     db |-> [db EXCEPT ![inst.id] =
               IF field = "is_active"
               THEN [@ EXCEPT !.is_active = inst.is_active]
               ELSE [@ EXCEPT !.condition_met_since = inst.condition_met_since]]]

\* Variant of threshold_decision that triggers whatever the condition
threshold_decision_always(condition_met) == TRUE

\* THRESHOLD branch of should_trigger: trigger as soon as the condition is met
threshold_decision(condition_met) == condition_met

\* Variant of duration_elapsed with > in place of >=
duration_elapsed_strict(t, condition_met_since, duration_minutes) ==
    (t - condition_met_since) > duration_minutes

\* The elapsed-time test of should_trigger (minutes)
duration_elapsed(t, condition_met_since, duration_minutes) ==
    (t - condition_met_since) >= duration_minutes

\* Variant of start_tracking without the save()
start_tracking_unsaved(db, alert, t) ==
    [ret |-> FALSE, alert |-> [alert EXCEPT !.condition_met_since = t], db |-> db]

\* Variant of start_tracking that stamps an earlier time than now
start_tracking_backdated(db, alert, t) ==
    LET s == save(db, [alert EXCEPT !.condition_met_since =
                                       IF t > 0 THEN t - 1 ELSE t])
    IN [ret |-> FALSE, alert |-> s.alert, db |-> s.db]

\* DURATION branch, condition met for the first time: start tracking, save,
\* do not trigger yet
start_tracking(db, alert, t) ==
    LET s == save(db, [alert EXCEPT !.condition_met_since = t])
    IN [ret |-> FALSE, alert |-> s.alert, db |-> s.db]

\* Variant of reset_tracking that leaves condition_met_since as it is
reset_tracking_kept(db, alert) ==
    [ret |-> FALSE, alert |-> alert, db |-> db]

\* Variant of reset_tracking without the save()
reset_tracking_unsaved(db, alert) ==
    [ret |-> FALSE, alert |-> [alert EXCEPT !.condition_met_since = NULL],
     db |-> db]

\* DURATION branch, condition not met: reset tracking if it was set
reset_tracking(db, alert) ==
    IF alert.condition_met_since # NULL THEN
        LET s == save(db, [alert EXCEPT !.condition_met_since = NULL])
        IN [ret |-> FALSE, alert |-> s.alert, db |-> s.db]
    ELSE
        [ret |-> FALSE, alert |-> alert, db |-> db]

\* Alert.should_trigger(current_price), evaluated at time t.
\* Returns the decision, the instance and the table after its saves.
should_trigger(db, alert, current_price, t) ==
    LET condition_met ==
            check_condition(alert.condition, current_price, alert.threshold_price)
    IN
    IF alert.alert_type = "THRESHOLD" THEN
        [ret |-> threshold_decision(condition_met), alert |-> alert, db |-> db]
    ELSE IF alert.alert_type = "DURATION" THEN
        IF condition_met THEN
            IF alert.condition_met_since = NULL THEN
                start_tracking(db, alert, t)
            ELSE
                [ret |-> duration_elapsed(t, alert.condition_met_since,
                                          alert.duration_minutes),
                 alert |-> alert, db |-> db]
        ELSE
            reset_tracking(db, alert)
    ELSE
        [ret |-> FALSE, alert |-> alert, db |-> db]

\* ----- NotificationService ------------------------------------------------

\* What a delivery channel can do: deliver, report failure, or raise
Outcomes == {"sent", "failed", "raised"}

\* send_email_notification / send_console_notification: each wraps its body in
\* try/except and returns False when the body raises
send_channel(outcome) == outcome = "sent"

\* NotificationService.send_alert_notification: email first, console fallback
send_alert_notification(email, console) ==
    IF send_channel(email) THEN TRUE ELSE send_channel(console)

\* ----- TriggeredAlert / AlertProcessor ------------------------------------

\* signals.triggered_alert_post_save with created=True; instance.alert is the
\* Alert instance handed to TriggeredAlert.objects.create
triggered_alert_post_save(db, alert) ==
    IF alert.alert_type = "THRESHOLD" /\ alert.is_active THEN
        save_update_fields(db, [alert EXCEPT !.is_active = FALSE], "is_active")
    ELSE IF alert.alert_type = "DURATION" /\ alert.condition_met_since # NULL THEN
        save_update_fields(db, [alert EXCEPT !.condition_met_since = NULL],
                           "condition_met_since")
    ELSE [alert |-> alert, db |-> db]

\* Variant of post_trigger that deactivates alerts of either type
post_trigger_deactivates(db, alert) ==
    save(db, [alert EXCEPT !.is_active = FALSE, !.condition_met_since = NULL])

\* The post-trigger state transition at the end of trigger_alert
post_trigger(db, alert) ==
    IF alert.alert_type = "THRESHOLD" THEN
        save(db, [alert EXCEPT !.is_active = FALSE])
    ELSE IF alert.alert_type = "DURATION" THEN
        save(db, [alert EXCEPT !.condition_met_since = NULL])
    ELSE [alert |-> alert, db |-> db]

\* Variant of trigger_return that returns the notification result
trigger_return_success(success) == success

\* trigger_alert returns True once the record and the alert are saved,
\* whatever the notification result was
trigger_return(success) == TRUE

\* Variant of record_outcome that leaves the flag as it was created
record_outcome_unwritten(created, success) == created

\* triggered_alert.notification_sent = success; triggered_alert.save()
record_outcome(created, success) ==
    [created EXCEPT !.notification_sent = success]

\* AlertProcessor.trigger_alert at time t; success is the notification result
trigger_alert(db, recs, alert, current_price, t, success) ==
    LET created == [alert |-> alert.id, stock_price |-> current_price,
                    triggered_at |-> t, notification_sent |-> FALSE]
        ps == triggered_alert_post_save(db, alert)
        updated == record_outcome(created, success)
        fin == post_trigger(ps.db, ps.alert)
    IN [ret |-> trigger_return(success), alert |-> fin.alert, db |-> fin.db,
        recs |-> Append(recs, updated)]

\* AlertProcessor.process_alert
process_alert(db, recs, alert, t, success) ==
    LET current_price == alert.stock_price
        st == should_trigger(db, alert, current_price, t)
    IN IF st.ret
       THEN trigger_alert(st.db, recs, st.alert, current_price, t, success)
       ELSE [ret |-> FALSE, alert |-> st.alert, db |-> st.db, recs |-> recs]

\* ----- exceptions inside process_alert ------------------------------------

\* The statements of process_alert / trigger_alert that can raise: the read of
\* alert.stock.current_price, the save() inside should_trigger, the INSERT of
\* TriggeredAlert.objects.create, the Alert.save() of the post_save receiver,
\* triggered_alert.save() and the final alert.save()
Faults == {"price", "track_save", "create", "signal_save", "record_save",
           "alert_save"}

\* should_trigger reaches one of its save() calls
should_trigger_saves(alert, current_price) ==
    LET condition_met ==
            check_condition(alert.condition, current_price, alert.threshold_price)
    IN /\ alert.alert_type = "DURATION"
       /\ IF condition_met THEN alert.condition_met_since = NULL
                           ELSE alert.condition_met_since # NULL

\* triggered_alert_post_save reaches one of its save() calls
post_save_saves(alert) ==
    \/ alert.alert_type = "THRESHOLD" /\ alert.is_active
    \/ alert.alert_type = "DURATION" /\ alert.condition_met_since # NULL

\* process_alert: except Exception -> log, return False.  What is left of
\* the exception for the caller's try/except
swallow(raised) == FALSE

\* process_alert when the statement named by fault raises: the exception is
\* caught by trigger_alert (lines 101-103) or process_alert (lines 62-64) and
\* False is returned.  What was written before the raise stays written (no
\* transaction spans the statements); the instance keeps the attributes
\* assigned before the raise.  reached: the run gets to that statement.
process_alert_raising(db, recs, alert, t, success, fault) ==
    LET current_price == alert.stock_price
        st == should_trigger(db, alert, current_price, t)
        created == [alert |-> alert.id, stock_price |-> current_price,
                    triggered_at |-> t, notification_sent |-> FALSE]
        ps == triggered_alert_post_save(st.db, st.alert)
        updated == record_outcome(created, success)
        fin == post_trigger(ps.db, ps.alert)
    IN
    IF fault = "price" THEN
        [reached |-> TRUE, ret |-> FALSE, raised |-> swallow(TRUE),
         alert |-> alert, db |-> db, recs |-> recs]
    ELSE IF fault = "track_save" THEN
        [reached |-> should_trigger_saves(alert, current_price),
         ret |-> FALSE, raised |-> swallow(TRUE),
         alert |-> st.alert, db |-> db, recs |-> recs]
    ELSE IF fault = "create" THEN
        [reached |-> st.ret, ret |-> FALSE, raised |-> FALSE,
         alert |-> st.alert, db |-> st.db, recs |-> recs]
    ELSE IF fault = "signal_save" THEN
        [reached |-> st.ret /\ post_save_saves(st.alert),
         ret |-> FALSE, raised |-> FALSE,
         alert |-> ps.alert, db |-> st.db, recs |-> Append(recs, created)]
    ELSE IF fault = "record_save" THEN
        [reached |-> st.ret, ret |-> FALSE, raised |-> FALSE,
         alert |-> ps.alert, db |-> ps.db, recs |-> Append(recs, created)]
    ELSE
        [reached |-> st.ret /\ alert.alert_type \in {"THRESHOLD", "DURATION"},
         ret |-> FALSE, raised |-> FALSE,
         alert |-> fin.alert, db |-> ps.db, recs |-> Append(recs, updated)]

\* Variant of after_failure that leaves the loop at the first failure
after_failure_break(i, n) == n + 1

\* The position of the for loop after an iteration whose process_alert
\* failed: the try/excepts are inside the loop, the next instance follows
after_failure(i, n) == i + 1

\* The body of the for loop of process_all_alerts: the counters after one
\* process_alert call that returned ret or raised
count_result(res, ret, raised) ==
    IF raised THEN [res EXCEPT !.errors = @ + 1]
    ELSE IF ret THEN [res EXCEPT !.triggered = @ + 1]
    ELSE res

\* Variant of active_filter without the is_active test
active_filter_all(db) == DOMAIN db

\* Alert.objects.filter(is_active=True).select_related('user', 'stock'):
\* the ids of the selected rows
active_filter(db) == {a \in DOMAIN db : db[a].is_active}

\* A model instance of row a with its related stock, as the query returns it
Instance(db, a, price) ==
    [id |-> a,
     alert_type |-> db[a].alert_type,
     condition |-> db[a].condition,
     threshold_price |-> db[a].threshold_price,
     duration_minutes |-> db[a].duration_minutes,
     is_active |-> db[a].is_active,
     condition_met_since |-> db[a].condition_met_since,
     stock_price |-> price]

\* Meta.ordering = ['-created_at']: the newest alert (the highest id) first
RECURSIVE SortedSeq(_)
SortedSeq(S) ==
    IF S = {} THEN <<>>
    ELSE LET m == CHOOSE x \in S : \A y \in S : x >= y
         IN <<m>> \o SortedSeq(S \ {m})

\* The instances the cycle iterates over
load_active_alerts(db, price) ==
    LET ids == SortedSeq(active_filter(db))
    IN [i \in 1..Len(ids) |-> Instance(db, ids[i], price)]

\* The for loop of process_all_alerts from position i on, with no statement
\* raising: the table, the records and the counters when the loop ends.
\* success is the result of every notification dispatch.
RECURSIVE process_loop(_, _, _, _, _, _, _)
process_loop(db, recs, loaded, i, res, t, success) ==
    IF i > Len(loaded) THEN [db |-> db, recs |-> recs, results |-> res]
    ELSE LET r == process_alert(db, recs, loaded[i], t, success)
         IN process_loop(r.db, r.recs, loaded, i + 1,
                         count_result(res, r.ret, FALSE), t, success)

\* AlertProcessor.process_all_alerts run from start to end at time t
process_all_alerts(db, recs, price, t, success) ==
    LET loaded == load_active_alerts(db, price)
    IN process_loop(db, recs, loaded, 1,
                    [processed |-> Len(loaded), triggered |-> 0, errors |-> 0],
                    t, success)

\* ----- AlertViewSet / serializers -----------------------------------------

\* AlertCreateSerializer: the rows an accepted create request stores
\* (duration_minutes required for DURATION, forbidden for THRESHOLD;
\* is_active defaults to True, condition_met_since to null)
created_rows ==
    { [alert_type |-> "THRESHOLD", condition |-> c, threshold_price |-> th,
       duration_minutes |-> NULL, is_active |-> TRUE,
       condition_met_since |-> NULL] : c \in CONDITIONS, th \in Thresholds }
    \cup
    { [alert_type |-> "DURATION", condition |-> c, threshold_price |-> th,
       duration_minutes |-> d, is_active |-> TRUE,
       condition_met_since |-> NULL] :
         c \in CONDITIONS, th \in Thresholds, d \in Durations }

\* The request bodies of PATCH /alerts/{id}/ the model draws from
update_requests ==
    { [is_active |-> b] : b \in BOOLEAN }
    \cup { [condition |-> c] : c \in CONDITIONS }
    \cup { [threshold_price |-> th] : th \in Thresholds \cup {0} }

\* Prices are counted in cents.  price_decimal > 999999.99 compares the
\* Decimal with the float 999999.99, which lies just below the decimal
\* 999999.99: the largest two-decimal value that passes is 999999.98
PRICE_LIMIT == 99999998

\* The limit of validate_duration_minutes: 30 days in minutes
DURATION_LIMIT == 43200

\* AlertUpdateSerializer.validate_threshold_price
validate_threshold_price(data) ==
    "threshold_price" \in DOMAIN data =>
        /\ data.threshold_price > 0
        /\ ~(data.threshold_price > PRICE_LIMIT)

\* AlertUpdateSerializer.validate_duration_minutes
validate_duration_minutes(data) ==
    ("duration_minutes" \in DOMAIN data /\ data.duration_minutes # NULL) =>
        /\ data.duration_minutes > 0
        /\ ~(data.duration_minutes > DURATION_LIMIT)

\* AlertUpdateSerializer.validate
validate_update(instance, data) ==
    IF "is_active" \in DOMAIN data /\ ~data.is_active THEN TRUE
    ELSE IF instance.alert_type = "DURATION"
         THEN LET duration == IF "duration_minutes" \in DOMAIN data
                              THEN data.duration_minutes
                              ELSE instance.duration_minutes
              IN ~(duration = NULL \/ duration <= 0)
         ELSE TRUE

\* ModelSerializer.update: the validated fields are set on the instance
set_attrs(instance, data) ==
    [f \in DOMAIN instance |->
        IF f \in DOMAIN data THEN data[f] ELSE instance[f]]

\* AlertViewSet.update: get_object, is_valid, serializer.save -> instance.save
update(db, a, data, price) ==
    LET instance == Instance(db, a, price) IN
    IF /\ validate_threshold_price(data)
       /\ validate_duration_minutes(data)
       /\ validate_update(instance, data)
    THEN save(db, set_attrs(instance, data)).db
    ELSE db

\* ----- history bookkeeping ------------------------------------------------

\* A "false since condition_met_since was set" flag after a step
Since(flag, old_cms, new_cms, false_now) ==
    IF new_cms = NULL \/ old_cms = NULL THEN FALSE ELSE flag \/ false_now

\* The facts of a cycle that has not created or failed anything
NoFacts == [created |-> 0, failed |-> 0, dispatched |-> "none"]

\* The result of a notification dispatch, as a fact
Dispatched(success) == IF success THEN "ok" ELSE "failed"

\* ----- initial state ------------------------------------------------------

Init ==
    /\ alerts \in [AlertIds -> created_rows]
    /\ triggered_alerts = <<>>
    /\ stock_price \in Prices
    /\ now = 0
    /\ pc = [w \in Workers |-> "idle"]
    /\ active_alerts = [w \in Workers |-> <<>>]
    /\ idx = [w \in Workers |-> 0]
    /\ results = [w \in Workers |-> [processed |-> 0, triggered |-> 0, errors |-> 0]]
    /\ last_observed = [a \in AlertIds |-> NULL]
    /\ eval_false_since = [a \in AlertIds |-> FALSE]
    /\ price_false_since = [a \in AlertIds |-> FALSE]
    /\ cycle_facts = [w \in Workers |-> NoFacts]

\* ----- actions ------------------------------------------------------------

NoCycleRunning == \A w \in Workers : pc[w] = "idle"

\* process_all_alerts, up to the for loop: run the query, count the rows
CycleStart(w) ==
    /\ pc[w] = "idle"
    /\ LET loaded == load_active_alerts(alerts, stock_price) IN
        /\ active_alerts' = [active_alerts EXCEPT ![w] = loaded]
        /\ results' = [results EXCEPT ![w] =
                         [processed |-> Len(loaded), triggered |-> 0, errors |-> 0]]
    /\ idx' = [idx EXCEPT ![w] = 1]
    /\ pc' = [pc EXCEPT ![w] = "loop"]
    /\ cycle_facts' = [cycle_facts EXCEPT ![w] = NoFacts]
    /\ UNCHANGED <<alerts, triggered_alerts, stock_price, now, last_observed,
                   eval_false_since, price_false_since>>

\* One iteration of the for loop of process_all_alerts: process_alert(alert)
ProcessAlert(w) ==
    /\ pc[w] = "loop"
    /\ idx[w] <= Len(active_alerts[w])
    /\ \E success \in {send_alert_notification(email, console) :
                            email \in Outcomes, console \in Outcomes} :
        LET alert == active_alerts[w][idx[w]]
            a == alert.id
            r == process_alert(alerts, triggered_alerts, alert, now, success)
            false_now == ~check_condition(alert.condition, alert.stock_price,
                                          alert.threshold_price)
        IN
        /\ Len(r.recs) <= MaxRecords
        /\ alerts' = r.db
        /\ triggered_alerts' = r.recs
        /\ active_alerts' = [active_alerts EXCEPT ![w][idx[w]] = r.alert]
        /\ results' = [results EXCEPT ![w].triggered = IF r.ret THEN @ + 1 ELSE @]
        /\ cycle_facts' = [cycle_facts EXCEPT
              ![w].created = @ + Len(r.recs) - Len(triggered_alerts),
              ![w].dispatched = IF Len(r.recs) > Len(triggered_alerts)
                                THEN Dispatched(success) ELSE @]
        /\ last_observed' = [last_observed EXCEPT ![a] =
              IF r.db[a].condition_met_since = NULL THEN NULL
              ELSE alert.stock_price]
        /\ eval_false_since' = [eval_false_since EXCEPT ![a] =
              Since(@, alerts[a].condition_met_since,
                    r.db[a].condition_met_since, false_now)]
        /\ price_false_since' = [price_false_since EXCEPT ![a] =
              Since(@, alerts[a].condition_met_since,
                    r.db[a].condition_met_since, FALSE)]
    /\ idx' = [idx EXCEPT ![w] = @ + 1]
    /\ UNCHANGED <<stock_price, now, pc>>

\* process_all_alerts returns its results
CycleEnd(w) ==
    /\ pc[w] = "loop"
    /\ idx[w] > Len(active_alerts[w])
    /\ pc' = [pc EXCEPT ![w] = "idle"]
    /\ active_alerts' = [active_alerts EXCEPT ![w] = <<>>]
    /\ idx' = [idx EXCEPT ![w] = 0]
    /\ results' = [results EXCEPT ![w] =
                     [processed |-> 0, triggered |-> 0, errors |-> 0]]
    /\ cycle_facts' = [cycle_facts EXCEPT ![w] = NoFacts]
    /\ UNCHANGED <<alerts, triggered_alerts, stock_price, now, last_observed,
                   eval_false_since, price_false_since>>

\* StockDataService.update_stock_price with a fetched price p
UpdateStockPrice(p) ==
    /\ stock_price' = p
    /\ price_false_since' = [a \in DOMAIN alerts |->
          Since(price_false_since[a], alerts[a].condition_met_since,
                alerts[a].condition_met_since,
                ~check_condition(alerts[a].condition, p, alerts[a].threshold_price))]
    /\ UNCHANGED <<alerts, triggered_alerts, now, pc, active_alerts, idx,
                   results, last_observed, eval_false_since, cycle_facts>>

\* AlertViewSet.update (PATCH) of alert a by its owner
UpdateAlert(a, data) ==
    /\ alerts' = update(alerts, a, data, stock_price)
    /\ eval_false_since' = [eval_false_since EXCEPT ![a] =
          Since(@, alerts[a].condition_met_since,
                alerts'[a].condition_met_since, FALSE)]
    /\ price_false_since' = [price_false_since EXCEPT ![a] =
          Since(@, alerts[a].condition_met_since,
                alerts'[a].condition_met_since, FALSE)]
    /\ last_observed' = [last_observed EXCEPT ![a] =
          IF alerts'[a].condition_met_since = NULL THEN NULL ELSE @]
    /\ UNCHANGED <<triggered_alerts, stock_price, now, pc, active_alerts, idx,
                   results, cycle_facts>>

\* Time passes
Tick ==
    /\ now < MaxTime
    /\ now' = now + 1
    /\ UNCHANGED <<alerts, triggered_alerts, stock_price, pc, active_alerts, idx,
                   results, last_observed, eval_false_since, price_false_since,
                   cycle_facts>>

\* Evaluation cycles run one after another; price updates, user requests and
\* the clock act between cycles.
Next ==
    \/ NoCycleRunning /\ CycleStart("task")
    \/ \E w \in Workers : ProcessAlert(w)
    \/ \E w \in Workers : CycleEnd(w)
    \/ \E p \in Prices : NoCycleRunning /\ UpdateStockPrice(p)
    \/ \E a \in DOMAIN alerts, data \in update_requests :
          NoCycleRunning /\ UpdateAlert(a, data)
    \/ NoCycleRunning /\ Tick

Spec == Init /\ [][Next]_vars

\* ----- batches and failures ------------------------------------------------

\* The alerts of the batch specification: two alerts on the stock
BatchIds == {1, 2}

\* The rows the batch starts from: both alert types, one comparator that
\* holds at the low price and one that holds at the high price
BatchRows ==
    {r \in created_rows : r.threshold_price = 1 /\ r.condition \in {">", "<="}}

\* The states the batch's alerts are in when the cycles start: as created,
\* switched off by the owner, or (DURATION) with a timer an earlier cycle
\* started at time 0
BatchStates ==
    {[r EXCEPT !.is_active = b] : r \in BatchRows, b \in BOOLEAN}
    \cup {[r EXCEPT !.condition_met_since = 0] :
            r \in {x \in BatchRows : x.alert_type = "DURATION"}}

\* A price the comparator of row r holds for
HoldingPrice(r) ==
    CHOOSE p \in Prices : check_condition(r.condition, p, r.threshold_price)

\* Alerts ids in those states, at any time of the clock, with no cycle running
\* and no record yet
InitStates(ids) ==
    /\ alerts \in [ids -> BatchStates]
    /\ triggered_alerts = <<>>
    /\ stock_price \in Prices
    /\ now \in 0..MaxTime
    /\ pc = [w \in Workers |-> "idle"]
    /\ active_alerts = [w \in Workers |-> <<>>]
    /\ idx = [w \in Workers |-> 0]
    /\ results = [w \in Workers |-> [processed |-> 0, triggered |-> 0, errors |-> 0]]
    /\ last_observed = [a \in ids |->
          IF alerts[a].condition_met_since = NULL THEN NULL
          ELSE HoldingPrice(alerts[a])]
    /\ eval_false_since = [a \in ids |-> FALSE]
    /\ price_false_since = [a \in ids |-> FALSE]
    /\ cycle_facts = [w \in Workers |-> NoFacts]

InitBatch == InitStates(BatchIds)

\* One iteration of the for loop in which the statement fault of
\* process_alert raises
ProcessAlertRaising(w, fault) ==
    /\ pc[w] = "loop"
    /\ idx[w] <= Len(active_alerts[w])
    /\ \E success \in {send_alert_notification(email, console) :
                            email \in Outcomes, console \in Outcomes} :
        LET alert == active_alerts[w][idx[w]]
            a == alert.id
            r == process_alert_raising(alerts, triggered_alerts, alert, now,
                                       success, fault)
            false_now == /\ fault # "price"
                         /\ ~check_condition(alert.condition, alert.stock_price,
                                             alert.threshold_price)
        IN
        /\ r.reached
        /\ Len(r.recs) <= MaxRecords
        /\ alerts' = r.db
        /\ triggered_alerts' = r.recs
        /\ active_alerts' = [active_alerts EXCEPT ![w][idx[w]] = r.alert]
        /\ results' = [results EXCEPT ![w] = count_result(@, r.ret, r.raised)]
        /\ cycle_facts' = [cycle_facts EXCEPT
              ![w].created = @ + Len(r.recs) - Len(triggered_alerts),
              ![w].failed = @ + 1,
              ![w].dispatched = IF fault \in {"record_save", "alert_save"}
                                THEN Dispatched(success) ELSE @]
        /\ last_observed' = [last_observed EXCEPT ![a] =
              IF r.db[a].condition_met_since = NULL THEN NULL
              ELSE IF fault = "price" THEN @
              ELSE alert.stock_price]
        /\ eval_false_since' = [eval_false_since EXCEPT ![a] =
              Since(@, alerts[a].condition_met_since,
                    r.db[a].condition_met_since, false_now)]
        /\ price_false_since' = [price_false_since EXCEPT ![a] =
              Since(@, alerts[a].condition_met_since,
                    r.db[a].condition_met_since, FALSE)]
    /\ idx' = [idx EXCEPT ![w] = after_failure(@, Len(active_alerts[w]))]
    /\ UNCHANGED <<stock_price, now, pc>>

\* The process running the cycle is shut down between two iterations: what
\* was committed stays, nothing is returned
CycleAbort(w) ==
    /\ pc[w] = "loop"
    /\ idx[w] <= Len(active_alerts[w])
    /\ pc' = [pc EXCEPT ![w] = "idle"]
    /\ active_alerts' = [active_alerts EXCEPT ![w] = <<>>]
    /\ idx' = [idx EXCEPT ![w] = 0]
    /\ results' = [results EXCEPT ![w] =
                     [processed |-> 0, triggered |-> 0, errors |-> 0]]
    /\ cycle_facts' = [cycle_facts EXCEPT ![w] = NoFacts]
    /\ UNCHANGED <<alerts, triggered_alerts, stock_price, now, last_observed,
                   eval_false_since, price_false_since>>

\* Variant of load_failed in which the failure is taken for an empty table
load_failed_empty ==
    [pc |-> "loop", active_alerts |-> <<>>, idx |-> 1,
     results |-> [processed |-> 0, triggered |-> 0, errors |-> 0]]

\* process_all_alerts when a query of lines 32-33 raises: the statements are
\* outside every try of the method, the exception leaves it with no result
load_failed ==
    [pc |-> "raised", active_alerts |-> <<>>, idx |-> 0,
     results |-> [processed |-> 0, triggered |-> 0, errors |-> 0]]

\* process_all_alerts is called and the query for the active alerts fails
CycleLoadFails(w) ==
    /\ pc[w] = "idle"
    /\ pc' = [pc EXCEPT ![w] = load_failed.pc]
    /\ active_alerts' = [active_alerts EXCEPT ![w] = load_failed.active_alerts]
    /\ idx' = [idx EXCEPT ![w] = load_failed.idx]
    /\ results' = [results EXCEPT ![w] = load_failed.results]
    /\ cycle_facts' = [cycle_facts EXCEPT ![w] = NoFacts]
    /\ UNCHANGED <<alerts, triggered_alerts, stock_price, now, last_observed,
                   eval_false_since, price_false_since>>

\* The caller gets the exception: the task logs it, the endpoint answers 500,
\* the management command ends with it
CallerHandles(w) ==
    /\ pc[w] = "raised"
    /\ pc' = [pc EXCEPT ![w] = "idle"]
    /\ UNCHANGED <<alerts, triggered_alerts, stock_price, now, active_alerts,
                   idx, results, last_observed, eval_false_since,
                   price_false_since, cycle_facts>>

\* Cycles over a batch of alerts, one after another, in which statements may
\* raise and the process may be shut down
NextBatch ==
    \/ NoCycleRunning /\ CycleStart("task")
    \/ \E w \in Workers : ProcessAlert(w)
    \/ \E w \in Workers, fault \in Faults : ProcessAlertRaising(w, fault)
    \/ \E w \in Workers : CycleEnd(w)
    \/ \E w \in Workers : CycleAbort(w)
    \/ NoCycleRunning /\ CycleLoadFails("task")
    \/ \E w \in Workers : CallerHandles(w)

SpecBatch == InitBatch /\ [][NextBatch]_vars

\* ----- overlapping cycles --------------------------------------------------

\* The PATCH bodies of the overlap specification: the owner switches the
\* alert off or on
toggle_requests == {data \in update_requests : "is_active" \in DOMAIN data}

InitOverlap == InitStates(AlertIds)

\* The scheduled task and the manual endpoint each run cycles whenever they
\* are called, and the owner and the price feed act at any time: nothing in
\* process_all_alerts, tasks.py or test_process_alerts waits for another
\* caller.
NextOverlap ==
    \/ \E w \in Workers : CycleStart(w)
    \/ \E w \in Workers : ProcessAlert(w)
    \/ \E w \in Workers : CycleEnd(w)
    \/ \E p \in Prices : UpdateStockPrice(p)
    \/ \E a \in DOMAIN alerts, data \in toggle_requests : UpdateAlert(a, data)

SpecOverlap == InitOverlap /\ [][NextOverlap]_vars

\* ----- vocabulary of the properties ---------------------------------------

\* The step is one evaluation (process_alert) by worker w
EvalStep(w) ==
    /\ pc[w] = "loop"
    /\ idx[w] <= Len(active_alerts[w])
    /\ idx'[w] = idx[w] + 1

\* The id of the alert worker w evaluates next
Evaluated(w) == active_alerts[w][idx[w]].id

\* The comparator of stored alert a holds for the stock's current price
ComparatorHolds(a) ==
    check_condition(alerts[a].condition, stock_price, alerts[a].threshold_price)

\* How many TriggeredAlert records alert a has
NumRecords(recs, a) == Cardinality({i \in 1..Len(recs) : recs[i].alert = a})

\* The step creates exactly one TriggeredAlert record, for alert a at time now
CreatesOneRecord(a) ==
    /\ Len(triggered_alerts') = Len(triggered_alerts) + 1
    /\ SubSeq(triggered_alerts', 1, Len(triggered_alerts)) = triggered_alerts
    /\ triggered_alerts'[Len(triggered_alerts')].alert = a
    /\ triggered_alerts'[Len(triggered_alerts')].triggered_at = now

\* The step creates no TriggeredAlert record
CreatesNoRecord == triggered_alerts' = triggered_alerts

\* ----- C1 -----------------------------------------------------------------
\* C1: an evaluation of an active THRESHOLD alert whose comparator holds for
\* the stock's current price creates exactly one TriggeredAlert record for it
\* and leaves it inactive; one whose comparator does not hold creates no
\* record and leaves it active.
C1_ThresholdTriggersOnce ==
    [][\A w \in Workers : EvalStep(w) =>
        LET a == Evaluated(w) IN
        (alerts[a].alert_type = "THRESHOLD" /\ alerts[a].is_active) =>
            IF ComparatorHolds(a)
            THEN CreatesOneRecord(a) /\ ~alerts'[a].is_active
            ELSE CreatesNoRecord /\ alerts'[a].is_active]_vars

\* A THRESHOLD alert that triggered exactly once and is inactive
C1_Witness ==
    \E a \in DOMAIN alerts :
        /\ alerts[a].alert_type = "THRESHOLD"
        /\ ~alerts[a].is_active
        /\ NumRecords(triggered_alerts, a) = 1

\* ----- C2 -----------------------------------------------------------------
\* The step is a user request that sets is_active of alert a to true
UserReactivates(a) ==
    \E data \in update_requests :
        /\ "is_active" \in DOMAIN data
        /\ data.is_active
        /\ UpdateAlert(a, data)

\* C2: once a THRESHOLD alert has triggered and is inactive, every step other
\* than a user request setting is_active to true leaves it inactive and
\* creates no TriggeredAlert record for it.
C2_ThresholdSingleShot ==
    [][\A a \in DOMAIN alerts :
        (/\ alerts[a].alert_type = "THRESHOLD"
         /\ ~alerts[a].is_active
         /\ NumRecords(triggered_alerts, a) > 0)
        => \/ /\ ~alerts'[a].is_active
              /\ NumRecords(triggered_alerts', a) = NumRecords(triggered_alerts, a)
           \/ UserReactivates(a)]_vars

\* A triggered, inactive THRESHOLD alert whose comparator holds again while a
\* later cycle has started and loaded no instance of it
C2_Witness ==
    \E a \in DOMAIN alerts, w \in Workers :
        /\ alerts[a].alert_type = "THRESHOLD"
        /\ ~alerts[a].is_active
        /\ NumRecords(triggered_alerts, a) > 0
        /\ ComparatorHolds(a)
        /\ pc[w] = "loop"
        /\ \A i \in 1..Len(active_alerts[w]) : active_alerts[w][i].id # a

\* ----- C3 -----------------------------------------------------------------
\* C3: an evaluation at time now of an active DURATION alert with
\* condition_met_since = t whose comparator holds triggers iff
\* now - t >= duration_minutes; a smaller elapsed time creates no record and
\* leaves t unchanged.
C3_DurationBoundary ==
    [][\A w \in Workers : EvalStep(w) =>
        LET a == Evaluated(w) IN
        (/\ alerts[a].alert_type = "DURATION"
         /\ alerts[a].is_active
         /\ alerts[a].condition_met_since # NULL
         /\ ComparatorHolds(a))
        => IF now - alerts[a].condition_met_since >= alerts[a].duration_minutes
           THEN CreatesOneRecord(a)
           ELSE /\ CreatesNoRecord
                /\ alerts'[a].condition_met_since = alerts[a].condition_met_since]_vars

\* A DURATION alert triggered when the elapsed time was exactly
\* duration_minutes: its timer started at 0 at the earliest, and the record
\* is stamped duration_minutes
C3_Witness ==
    \E i \in 1..Len(triggered_alerts) :
        LET a == triggered_alerts[i].alert IN
        /\ alerts[a].alert_type = "DURATION"
        /\ triggered_alerts[i].triggered_at = alerts[a].duration_minutes

\* ----- C4 -----------------------------------------------------------------
\* C4: an evaluation of an active DURATION alert whose condition_met_since is
\* null and whose comparator holds sets condition_met_since to the current
\* time and creates no TriggeredAlert record.
C4_DurationStartsTimer ==
    [][\A w \in Workers : EvalStep(w) =>
        LET a == Evaluated(w) IN
        (/\ alerts[a].alert_type = "DURATION"
         /\ alerts[a].is_active
         /\ alerts[a].condition_met_since = NULL
         /\ ComparatorHolds(a))
        => (/\ alerts'[a].condition_met_since = now
            /\ CreatesNoRecord)]_vars

\* A cycle has just evaluated a DURATION alert and started its timer at the
\* current time, without a record
C4_Witness ==
    \E w \in Workers :
        /\ pc[w] = "loop"
        /\ idx[w] > 1
        /\ LET a == active_alerts[w][idx[w] - 1].id IN
            /\ alerts[a].alert_type = "DURATION"
            /\ alerts[a].condition_met_since = now
            /\ NumRecords(triggered_alerts, a) = 0

\* ----- C5 -----------------------------------------------------------------
\* C5: when an evaluation of a DURATION alert triggers, exactly one
\* TriggeredAlert record is created, the stored condition_met_since becomes
\* null and is_active stays true.
C5_DurationTrigger ==
    [][\A w \in Workers : EvalStep(w) =>
        LET a == Evaluated(w) IN
        (/\ alerts[a].alert_type = "DURATION"
         /\ alerts[a].is_active
         /\ triggered_alerts' # triggered_alerts)
        => (/\ CreatesOneRecord(a)
            /\ alerts'[a].condition_met_since = NULL
            /\ alerts'[a].is_active)]_vars

\* A cycle has just triggered a DURATION alert: it has a record stamped now,
\* no timer, and is active
C5_Witness ==
    \E w \in Workers :
        /\ pc[w] = "loop"
        /\ idx[w] > 1
        /\ LET a == active_alerts[w][idx[w] - 1].id IN
            /\ alerts[a].alert_type = "DURATION"
            /\ alerts[a].is_active
            /\ alerts[a].condition_met_since = NULL
            /\ results[w].triggered > 0

\* ----- C6 -----------------------------------------------------------------
\* C6: the stored condition_met_since of an alert is non-null only if the
\* alert is active, its type is DURATION, and its current comparator and
\* threshold hold for the price last observed by an evaluation of it.
C6_TimerOnlyWhileConditionHolds ==
    \A a \in DOMAIN alerts :
        alerts[a].condition_met_since # NULL =>
            /\ alerts[a].is_active
            /\ alerts[a].alert_type = "DURATION"
            /\ last_observed[a] # NULL
            /\ check_condition(alerts[a].condition, last_observed[a],
                               alerts[a].threshold_price)

\* ----- C7 -----------------------------------------------------------------
\* C7: an evaluation of an active DURATION alert whose comparator does not
\* hold for the current price ends with condition_met_since null (an already
\* null value is left as it is, with the rest of the row) and creates no
\* TriggeredAlert record.
C7_FalseReadingClears ==
    [][\A w \in Workers : EvalStep(w) =>
        LET a == Evaluated(w) IN
        (/\ alerts[a].alert_type = "DURATION"
         /\ alerts[a].is_active
         /\ ~ComparatorHolds(a))
        => (/\ alerts'[a].condition_met_since = NULL
            /\ (alerts[a].condition_met_since = NULL => alerts' = alerts)
            /\ CreatesNoRecord)]_vars

\* A cycle has just evaluated an active DURATION alert for a price its
\* comparator does not hold for, and the alert has no timer
C7_Witness ==
    \E w \in Workers :
        /\ pc[w] = "loop"
        /\ idx[w] > 1
        /\ LET a == active_alerts[w][idx[w] - 1].id IN
            /\ alerts[a].alert_type = "DURATION"
            /\ alerts[a].is_active
            /\ ~ComparatorHolds(a)
            /\ alerts[a].condition_met_since = NULL

\* ----- C8 -----------------------------------------------------------------
\* C8: condition_met_since is never back-dated: a step gives it a new
\* non-null value only if the step is an evaluation of that alert that finds
\* it null with the comparator holding, and the value is then the current
\* time (so that after a false reading the duration counts from the later
\* evaluation); no step replaces a non-null value by another non-null value.
C8_NeverBackDated ==
    [][\A a \in DOMAIN alerts :
        (/\ alerts'[a].condition_met_since # alerts[a].condition_met_since
         /\ alerts'[a].condition_met_since # NULL)
        => (/\ alerts[a].condition_met_since = NULL
            /\ alerts'[a].condition_met_since = now
            /\ ComparatorHolds(a)
            /\ \E w \in Workers : EvalStep(w) /\ Evaluated(w) = a)]_vars

\* A timer started by an evaluation later than time 0, at the current time
C8_Witness ==
    \E w \in Workers :
        /\ pc[w] = "loop"
        /\ idx[w] > 1
        /\ LET a == active_alerts[w][idx[w] - 1].id IN
            /\ alerts[a].condition_met_since = now
            /\ now > 0

C10_NotificationFailure ==
    [][/\ \A i \in 1..Len(triggered_alerts) :
            /\ i <= Len(triggered_alerts')
            /\ triggered_alerts'[i] = triggered_alerts[i]
       /\ \A w \in Workers : EvalStep(w) =>
            LET a == Evaluated(w) IN
            (/\ triggered_alerts' # triggered_alerts
             /\ ~triggered_alerts'[Len(triggered_alerts')].notification_sent)
            => (/\ CreatesOneRecord(a)
                /\ alerts[a].alert_type = "THRESHOLD" => ~alerts'[a].is_active
                /\ alerts[a].alert_type = "DURATION" =>
                      /\ alerts'[a].condition_met_since = NULL
                      /\ alerts'[a].is_active
                /\ results'[w].triggered = results[w].triggered + 1
                /\ results'[w].errors = results[w].errors)]_vars

\* A record whose notification failed, of an alert that made its post-trigger
\* transition, in a cycle that counted the trigger
C10_Witness ==
    \E w \in Workers :
        /\ pc[w] = "loop"
        /\ idx[w] > 1
        /\ results[w].triggered = 1
        /\ LET a == active_alerts[w][idx[w] - 1].id
               last == triggered_alerts[Len(triggered_alerts)]
           IN /\ last.alert = a
              /\ ~last.notification_sent
              /\ alerts[a].alert_type = "THRESHOLD"
              /\ ~alerts[a].is_active

\* ----- C11 ----------------------------------------------------------------
\* C11: a trigger is atomic: in every reachable state, whatever statement of
\* trigger_alert raised or wherever the process stopped, every TriggeredAlert
\* record belongs to a trigger whose post-trigger transition was applied: a
\* THRESHOLD alert with a record is inactive (no user reactivates an alert in
\* this specification), and a DURATION alert with a record does not carry a
\* condition_met_since that had elapsed when the record was created.
C11_TriggerAtomic ==
    \A i \in 1..Len(triggered_alerts) :
        LET a == triggered_alerts[i].alert IN
        /\ alerts[a].alert_type = "THRESHOLD" => ~alerts[a].is_active
        /\ alerts[a].alert_type = "DURATION" =>
              ~(/\ alerts[a].condition_met_since # NULL
                /\ duration_elapsed(triggered_alerts[i].triggered_at,
                                    alerts[a].condition_met_since,
                                    alerts[a].duration_minutes))

\* ----- C12 ----------------------------------------------------------------
\* C12: when the read of the current price of an alert's stock fails during
\* a cycle, the alert is skipped (the loop moves on), the cycle's errors
\* count grows by one, and the alert rows and the TriggeredAlert records are
\* left exactly as they were.
C12_PriceFailureCounted ==
    [][\A w \in Workers : ProcessAlertRaising(w, "price") =>
        /\ idx'[w] = idx[w] + 1
        /\ results'[w].errors = results[w].errors + 1
        /\ alerts' = alerts
        /\ CreatesNoRecord]_vars

\* ----- C13 ----------------------------------------------------------------
\* The loaded instance warrants a trigger at time t
Warranted(inst, t) ==
    /\ check_condition(inst.condition, inst.stock_price, inst.threshold_price)
    /\ \/ inst.alert_type = "THRESHOLD"
       \/ /\ inst.alert_type = "DURATION"
          /\ inst.condition_met_since # NULL
          /\ t - inst.condition_met_since >= inst.duration_minutes

\* The step is an iteration of worker w in which some statement raises
FailingStep(w) == \E fault \in Faults : ProcessAlertRaising(w, fault)

\* C13: a failure while one alert is processed never keeps the other alerts
\* the cycle loaded from being evaluated and triggered: (1) inside the loop
\* the cycle only ever moves to the next loaded instance, and it ends only
\* after the last one (or by a shutdown of the process), returning its
\* aggregate; (2) a failing iteration changes no row and no loaded instance
\* of another alert and none of the existing records; (3) whatever the
\* earlier iterations did, an iteration that does not fail, on an instance
\* that warrants a trigger, creates the record for its alert and counts it.
C13_FaultIsolation ==
    [][\A w \in Workers :
        /\ (pc[w] = "loop" /\ pc'[w] = "loop" /\ idx'[w] # idx[w])
              => idx'[w] = idx[w] + 1
        /\ (pc[w] = "loop" /\ pc'[w] = "idle")
              => \/ idx[w] > Len(active_alerts[w])
                 \/ CycleAbort(w)
        /\ (pc[w] = "loop" /\ idx[w] <= Len(active_alerts[w]))
              => LET a == Evaluated(w) IN
                 /\ FailingStep(w) =>
                      /\ \A b \in DOMAIN alerts \ {a} : alerts'[b] = alerts[b]
                      /\ \A j \in 1..Len(active_alerts[w]) :
                            j # idx[w] =>
                               active_alerts'[w][j] = active_alerts[w][j]
                      /\ SubSeq(triggered_alerts', 1, Len(triggered_alerts))
                            = triggered_alerts
                      /\ results'[w].processed = results[w].processed
                 /\ (ProcessAlert(w) /\ Warranted(active_alerts[w][idx[w]], now))
                      => /\ CreatesOneRecord(a)
                         /\ results'[w].triggered = results[w].triggered + 1]_vars

\* A cycle over two alerts whose first iteration failed (the first instance
\* warrants a trigger, yet its alert has no record and is still active) and
\* whose second iteration triggered the other alert
C13_Witness ==
    \E w \in Workers :
        /\ pc[w] = "loop"
        /\ Len(active_alerts[w]) = 2
        /\ idx[w] = 3
        /\ LET first == active_alerts[w][1]
               second == active_alerts[w][2]
           IN /\ first.alert_type = "THRESHOLD"
              /\ check_condition(first.condition, first.stock_price,
                                 first.threshold_price)
              /\ NumRecords(triggered_alerts, first.id) = 0
              /\ alerts[first.id].is_active
              /\ NumRecords(triggered_alerts, second.id) = 1
              /\ results[w].triggered = 1

\* ----- C14 ----------------------------------------------------------------
\* The step is the return of a cycle of worker w
CycleReturns(w) == pc[w] = "loop" /\ pc'[w] = "idle"

\* C14: when a cycle has returned, a second run of process_all_alerts with
\* the same price and no user action creates no TriggeredAlert record: run
\* at once it creates none at all, and run after the clock has advanced it
\* still creates none for a THRESHOLD alert, nor for a DURATION alert the
\* first run triggered (the first run left those inactive or with no timer).
C14_SecondRunCreatesNothing ==
    [][\A w \in Workers : CycleReturns(w) =>
        \A success \in BOOLEAN :
          /\ process_all_alerts(alerts', triggered_alerts', stock_price', now',
                                success).recs = triggered_alerts'
          /\ \A t \in now'..MaxTime :
               LET second == process_all_alerts(alerts', triggered_alerts',
                                                stock_price', t, success)
               IN \A a \in DOMAIN alerts :
                    (\/ alerts'[a].alert_type = "THRESHOLD"
                     \/ alerts'[a].condition_met_since = NULL)
                    => NumRecords(second.recs, a)
                         = NumRecords(triggered_alerts', a)]_vars

\* A cycle that triggered an alert whose comparator still holds has returned
\* and a second cycle has started at the same time: for a THRESHOLD alert it
\* loaded nothing, a DURATION alert it evaluates again
C14_Witness ==
    \E w \in Workers, a \in DOMAIN alerts :
        /\ pc[w] = "loop"
        /\ results[w].triggered = 0
        /\ ComparatorHolds(a)
        /\ \E i \in 1..Len(triggered_alerts) :
              /\ triggered_alerts[i].alert = a
              /\ triggered_alerts[i].triggered_at = now
              /\ triggered_alerts[i].stock_price = stock_price
        /\ \/ ~alerts[a].is_active /\ Len(active_alerts[w]) = 0
           \/ /\ alerts[a].alert_type = "DURATION"
              /\ idx[w] > Len(active_alerts[w])
              /\ Len(active_alerts[w]) = 1

\* ----- C15 ----------------------------------------------------------------
\* The step is a user request that sets is_active of alert a to false
UserDeactivates(a) ==
    \E data \in update_requests :
        /\ "is_active" \in DOMAIN data
        /\ ~data.is_active
        /\ UpdateAlert(a, data)

\* C15: a user request that sets is_active to false, before, between or in
\* the middle of evaluation cycles, leaves the stored alert inactive with
\* condition_met_since null; and a user request that reactivates an inactive
\* alert leaves condition_met_since null: no duration tracking is carried
\* over.
C15_DeactivationClearsTimer ==
    [][\A a \in DOMAIN alerts :
        (pc' = pc /\ triggered_alerts' = triggered_alerts) =>
            /\ UserDeactivates(a) =>
                  /\ ~alerts'[a].is_active
                  /\ alerts'[a].condition_met_since = NULL
            /\ (~alerts[a].is_active /\ UserReactivates(a)) =>
                  /\ alerts'[a].is_active
                  /\ alerts'[a].condition_met_since = NULL]_vars

\* A DURATION alert was switched off in the middle of a cycle that still
\* holds its loaded copy with the timer running: the stored row is inactive
\* and has no timer
C15_Witness ==
    \E a \in DOMAIN alerts, w \in Workers :
        /\ alerts[a].alert_type = "DURATION"
        /\ ~alerts[a].is_active
        /\ alerts[a].condition_met_since = NULL
        /\ pc[w] = "loop"
        /\ idx[w] <= Len(active_alerts[w])
        /\ active_alerts[w][idx[w]].id = a
        /\ active_alerts[w][idx[w]].condition_met_since # NULL

\* ----- C16 ----------------------------------------------------------------
\* C16: a DURATION alert is multi-shot.  Once it has a record, (1) no step
\* but a user request makes it inactive, (2) every cycle that starts while
\* it is active loads it, and (3) an evaluation that finds its comparator
\* holding with a timer started at least duration_minutes ago creates one
\* further record for it.
C16_DurationMultiShot ==
    [][\A a \in DOMAIN alerts :
        (alerts[a].alert_type = "DURATION" /\ NumRecords(triggered_alerts, a) > 0)
        => /\ (alerts[a].is_active /\ ~alerts'[a].is_active)
                 => UserDeactivates(a)
           /\ \A w \in Workers :
                 /\ (alerts[a].is_active /\ pc[w] = "idle" /\ pc'[w] = "loop")
                       => \E i \in 1..Len(active_alerts'[w]) :
                             active_alerts'[w][i].id = a
                 /\ (/\ EvalStep(w)
                     /\ Evaluated(w) = a
                     /\ alerts[a].is_active
                     /\ ComparatorHolds(a)
                     /\ alerts[a].condition_met_since # NULL
                     /\ now - alerts[a].condition_met_since
                           >= alerts[a].duration_minutes)
                       => /\ CreatesOneRecord(a)
                          /\ NumRecords(triggered_alerts', a)
                                = NumRecords(triggered_alerts, a) + 1]_vars

\* A DURATION alert that triggered twice, at two different times, and is
\* still active
C16_Witness ==
    \E a \in DOMAIN alerts :
        /\ alerts[a].alert_type = "DURATION"
        /\ alerts[a].is_active
        /\ \E i, j \in 1..Len(triggered_alerts) :
              /\ i < j
              /\ triggered_alerts[i].alert = a
              /\ triggered_alerts[j].alert = a
              /\ triggered_alerts[j].triggered_at
                    >= triggered_alerts[i].triggered_at + alerts[a].duration_minutes

\* ----- C17 ----------------------------------------------------------------
\* Worker w has read alert a and has not yet evaluated and written it: it
\* holds a loaded copy of a that its loop has still to process
InSection(w, a) ==
    /\ pc[w] = "loop"
    /\ \E i \in idx[w]..Len(active_alerts[w]) : active_alerts[w][i].id = a

\* C17: no two running cycles are inside the read-evaluate-write section of
\* the same alert at the same time.
C17_SerializedPerAlert ==
    \A a \in DOMAIN alerts : \A w1, w2 \in Workers :
        (InSection(w1, a) /\ InSection(w2, a)) => w1 = w2

\* ----- C18 ----------------------------------------------------------------
\* C18: the aggregate a cycle returns is exact: when its loop has ended,
\* processed is the number of (active) alerts the cycle loaded, triggered the
\* number of TriggeredAlert records the cycle created, errors the number of
\* loaded alerts whose processing failed, and triggered + errors <= processed.
C18_AggregateExact ==
    \A w \in Workers :
        (pc[w] = "loop" /\ idx[w] > Len(active_alerts[w])) =>
            /\ results[w].processed = Len(active_alerts[w])
            /\ results[w].triggered = cycle_facts[w].created
            /\ results[w].errors = cycle_facts[w].failed
            /\ results[w].triggered + results[w].errors <= results[w].processed

\* ----- C19 ----------------------------------------------------------------
\* C19: a cycle leaves every inactive alert untouched: a cycle that starts
\* does not load it, and no step of a cycle (an iteration that succeeds or
\* fails, the return) writes any of its fields or creates a TriggeredAlert
\* record for it, whatever the stock price is.
C19_InactiveUntouched ==
    [][\A a \in DOMAIN alerts : ~alerts[a].is_active =>
        /\ alerts'[a] = alerts[a]
        /\ NumRecords(triggered_alerts', a) = NumRecords(triggered_alerts, a)
        /\ \A w \in Workers :
              (pc[w] = "idle" /\ pc'[w] = "loop") =>
                 \A i \in 1..Len(active_alerts'[w]) :
                    active_alerts'[w][i].id # a]_vars

\* A cycle has processed and triggered one alert of the batch while the other
\* alert, inactive since before the cycle, has a comparator that holds for
\* the price and still has no record
C19_Witness ==
    \E w \in Workers, a \in DOMAIN alerts :
        /\ pc[w] = "loop"
        /\ idx[w] > Len(active_alerts[w])
        /\ results[w].triggered = 1
        /\ \A i \in 1..Len(active_alerts[w]) : active_alerts[w][i].id # a
        /\ ~alerts[a].is_active
        /\ ComparatorHolds(a)
        /\ NumRecords(triggered_alerts, a) = 0

\* ----- C20 ----------------------------------------------------------------
\* C20: every iteration the cycle counts as a trigger creates exactly one
\* TriggeredAlert record, for the alert it evaluated, with the price it
\* tested and with notification_sent true iff the dispatch of that trigger
\* succeeded; and the records are append-only: no step of the engine,
\* failing or not, removes a record or changes a field of an existing one
\* (so the flag is not written again after the trigger), and no step adds
\* more than one record.
C20_RecordsAppendOnly ==
    [][/\ \A i \in 1..Len(triggered_alerts) :
            /\ i <= Len(triggered_alerts')
            /\ triggered_alerts'[i] = triggered_alerts[i]
       /\ Len(triggered_alerts') <= Len(triggered_alerts) + 1
       /\ \A w \in Workers :
            (/\ pc[w] = "loop"
             /\ idx[w] <= Len(active_alerts[w])
             /\ results'[w].triggered = results[w].triggered + 1)
            => LET new == triggered_alerts'[Len(triggered_alerts')] IN
               /\ CreatesOneRecord(Evaluated(w))
               /\ new.stock_price = active_alerts[w][idx[w]].stock_price
               /\ cycle_facts'[w].dispatched # "none"
               /\ new.notification_sent
                     <=> cycle_facts'[w].dispatched = "ok"]_vars

\* A cycle has triggered both alerts of the batch: the dispatch of the first
\* trigger succeeded and its record says so, the dispatch of the second
\* failed and its record says so
C20_Witness ==
    \E w \in Workers :
        /\ pc[w] = "loop"
        /\ results[w].triggered = 2
        /\ cycle_facts[w].failed = 0
        /\ cycle_facts[w].dispatched = "failed"
        /\ Len(triggered_alerts) = 2
        /\ triggered_alerts[1].notification_sent
        /\ ~triggered_alerts[2].notification_sent
        /\ triggered_alerts[1].alert # triggered_alerts[2].alert

\* ----- C21 ----------------------------------------------------------------
\* C21: when the query for the active alerts fails, the cycle changes no
\* alert and creates no TriggeredAlert record, and the call ends by raising
\* to its caller: it never enters the loop and never returns a
\* {processed, triggered, errors} result, which only the end of the loop
\* returns; the caller's handling of the exception changes nothing either.
C21_LoadFailureSurfaces ==
    [][\A w \in Workers :
        /\ CycleLoadFails(w) =>
              /\ pc'[w] = "raised"
              /\ alerts' = alerts
              /\ triggered_alerts' = triggered_alerts
        /\ pc[w] = "raised" =>
              /\ pc'[w] \in {"raised", "idle"}
              /\ alerts' = alerts
              /\ triggered_alerts' = triggered_alerts
              /\ active_alerts'[w] = <<>>
        /\ (pc[w] = "loop" /\ idx[w] <= Len(active_alerts[w]))
              => pc'[w] # "raised"]_vars

\* The call of the scheduled task has raised while an active THRESHOLD alert
\* whose comparator holds is waiting: it has no record and is still active
C21_Witness ==
    \E a \in DOMAIN alerts :
        /\ pc["task"] = "raised"
        /\ alerts[a].alert_type = "THRESHOLD"
        /\ alerts[a].is_active
        /\ ComparatorHolds(a)
        /\ NumRecords(triggered_alerts, a) = 0

\* ----- C22 ----------------------------------------------------------------
\* The row of alert a has changed since worker w loaded its copy
Conflict(w, a) ==
    /\ pc[w] = "loop"
    /\ idx[w] <= Len(active_alerts[w])
    /\ active_alerts[w][idx[w]].id = a
    /\ Row(active_alerts[w][idx[w]]) # alerts[a]

\* C22: when an iteration writes (a row or a record) although the row of its
\* alert has changed since the cycle loaded it, the conflict is detected and
\* the evaluation is run again on the row as it is now: the tables after the
\* step are those an evaluation of the current row leaves (nothing, if the
\* alert is no longer active).
C22_ConflictRetried ==
    [][\A w \in Workers : EvalStep(w) =>
        LET a == Evaluated(w) IN
        (Conflict(w, a) /\ (alerts' # alerts \/ triggered_alerts' # triggered_alerts))
        => IF alerts[a].is_active
           THEN \E success \in BOOLEAN :
                   LET r == process_alert(alerts, triggered_alerts,
                                          Instance(alerts, a, stock_price),
                                          now, success)
                   IN alerts' = r.db /\ triggered_alerts' = r.recs
           ELSE alerts' = alerts /\ triggered_alerts' = triggered_alerts]_vars

\* ----- cleanup of old records ---------------------------------------------

\* timedelta(days=1) is scaled to DayLength ticks of the model clock, so
\* that records on both sides of the cutoff occur within MaxTime; the
\* retention arguments are 0..MaxDays days
DayLength == 1
MaxDays == 2
Days == 0..MaxDays

\* AlertProcessor.cleanup_old_triggered_alerts with triggered_at__lte in place
\* of triggered_at__lt
cleanup_old_triggered_alerts_lte(recs, t, days_to_keep) ==
    LET cutoff_date == t - days_to_keep * DayLength
        old(r) == r.triggered_at <= cutoff_date
        kept(r) == ~old(r)
    IN [recs |-> SelectSeq(recs, kept),
        deleted_count |-> Len(SelectSeq(recs, old))]

\* AlertProcessor.cleanup_old_triggered_alerts at time t: one DELETE of the
\* records with triggered_at < cutoff_date; returns the number deleted
cleanup_old_triggered_alerts(recs, t, days_to_keep) ==
    LET cutoff_date == t - days_to_keep * DayLength
        old(r) == r.triggered_at < cutoff_date
        kept(r) == ~old(r)
    IN [recs |-> SelectSeq(recs, kept),
        deleted_count |-> Len(SelectSeq(recs, old))]

\* The task cleanup_old_triggered_alerts(days)
Cleanup(days) ==
    /\ triggered_alerts' = cleanup_old_triggered_alerts(triggered_alerts, now, days).recs
    /\ UNCHANGED <<alerts, stock_price, now, pc, active_alerts, idx, results,
                   last_observed, eval_false_since, price_false_since,
                   cycle_facts>>

\* Two alerts as created, at time 0
InitCleanup ==
    /\ alerts \in [BatchIds -> BatchRows]
    /\ triggered_alerts = <<>>
    /\ stock_price \in Prices
    /\ now = 0
    /\ pc = [w \in Workers |-> "idle"]
    /\ active_alerts = [w \in Workers |-> <<>>]
    /\ idx = [w \in Workers |-> 0]
    /\ results = [w \in Workers |-> [processed |-> 0, triggered |-> 0, errors |-> 0]]
    /\ last_observed = [a \in BatchIds |-> NULL]
    /\ eval_false_since = [a \in BatchIds |-> FALSE]
    /\ price_false_since = [a \in BatchIds |-> FALSE]
    /\ cycle_facts = [w \in Workers |-> NoFacts]

\* The beat schedule runs the evaluation cycles and the cleanup task as
\* separate tasks: the cleanup can run between any two steps of a cycle
NextCleanup ==
    \/ NoCycleRunning /\ CycleStart("task")
    \/ \E w \in Workers : ProcessAlert(w)
    \/ \E w \in Workers : CycleEnd(w)
    \/ \E p \in Prices : NoCycleRunning /\ UpdateStockPrice(p)
    \/ NoCycleRunning /\ Tick
    \/ \E days \in Days : Cleanup(days)

SpecCleanup == InitCleanup /\ [][NextCleanup]_vars

\* ----- C23 ----------------------------------------------------------------
\* The records of recs that are not older than days days at time t
NotOlderThan(recs, t, days) ==
    LET recent(r) == r.triggered_at >= t - days * DayLength
    IN SelectSeq(recs, recent)

\* C23: a cleanup with argument days leaves exactly the records that are not
\* older than days days, in their order, changes no alert row, and a second
\* cleanup right after it deletes nothing; and cleaning up after an
\* evaluation gives the tables that evaluating after the cleanup gives.
C23_CleanupExact ==
    [][/\ \A days \in Days : Cleanup(days) =>
            /\ triggered_alerts' = NotOlderThan(triggered_alerts, now, days)
            /\ alerts' = alerts
            /\ cleanup_old_triggered_alerts(triggered_alerts', now', days).deleted_count = 0
       /\ \A w \in Workers, days \in Days : EvalStep(w) =>
            \E success \in BOOLEAN :
               LET r == process_alert(alerts,
                           cleanup_old_triggered_alerts(triggered_alerts, now, days).recs,
                           active_alerts[w][idx[w]], now, success)
               IN /\ r.db = alerts'
                  /\ r.recs = NotOlderThan(triggered_alerts', now', days)]_vars

\* A cleanup has deleted the record of the THRESHOLD alert 1, which fired,
\* and kept a later record of alert 2
C23_Witness ==
    /\ alerts[1].alert_type = "THRESHOLD"
    /\ ~alerts[1].is_active
    /\ \A i \in DOMAIN triggered_alerts : triggered_alerts[i].alert # 1
    /\ \E i \in DOMAIN triggered_alerts : triggered_alerts[i].alert = 2

\* ----- C24 ----------------------------------------------------------------
\* C24: for every stored alert and every price of the stock, check_condition
\* returns a boolean, and it is current > threshold for '>', current <
\* threshold for '<', current >= threshold for '>=' and current <= threshold
\* for '<='.
C24_CheckConditionSemantics ==
    \A a \in DOMAIN alerts, p \in Prices :
        LET c == alerts[a].condition
            th == alerts[a].threshold_price
            v == check_condition(c, p, th)
        IN /\ v \in BOOLEAN
           /\ c \in CONDITIONS
           /\ c = ">" => (v <=> p > th)
           /\ c = "<" => (v <=> p < th)
           /\ c = ">=" => (v <=> p >= th)
           /\ c = "<=" => (v <=> p <= th)

\* An alert with '>=' has fired at a price equal to its threshold
C24_Witness ==
    \E a \in DOMAIN alerts, i \in DOMAIN triggered_alerts :
        /\ alerts[a].condition = ">="
        /\ triggered_alerts[i].alert = a
        /\ triggered_alerts[i].stock_price = alerts[a].threshold_price

\* ----- requests of the owner ----------------------------------------------

\* The request bodies of PATCH /alerts/{id}/ with every writable field of
\* AlertUpdateSerializer: those of update_requests, a threshold_price at and
\* above the limit, a duration_minutes (null, zero, small, at and above the
\* limit), and a deactivation that also sets duration_minutes
edit_requests ==
    update_requests
    \cup { [threshold_price |-> th] : th \in {PRICE_LIMIT, PRICE_LIMIT + 1} }
    \cup { [duration_minutes |-> d] :
             d \in Durations \cup {NULL, 0, DURATION_LIMIT, DURATION_LIMIT + 1} }
    \cup { [is_active |-> FALSE, duration_minutes |-> d] : d \in {NULL, 0} }

\* One alert as created
InitRequests ==
    /\ alerts \in [AlertIds -> created_rows]
    /\ triggered_alerts = <<>>
    /\ stock_price \in Prices
    /\ now = 0
    /\ pc = [w \in Workers |-> "idle"]
    /\ active_alerts = [w \in Workers |-> <<>>]
    /\ idx = [w \in Workers |-> 0]
    /\ results = [w \in Workers |-> [processed |-> 0, triggered |-> 0, errors |-> 0]]
    /\ last_observed = [a \in AlertIds |-> NULL]
    /\ eval_false_since = [a \in AlertIds |-> FALSE]
    /\ price_false_since = [a \in AlertIds |-> FALSE]
    /\ cycle_facts = [w \in Workers |-> NoFacts]

\* The owner edits the alert; the price feed moves the price
NextRequests ==
    \/ \E a \in DOMAIN alerts, data \in edit_requests : UpdateAlert(a, data)
    \/ \E p \in Prices : UpdateStockPrice(p)

SpecRequests == InitRequests /\ [][NextRequests]_vars

\* ----- C25 ----------------------------------------------------------------
\* C25: every stored alert has a duration_minutes exactly when it is a
\* DURATION alert, a duration_minutes between 1 and 43200 when it has one, and
\* a threshold_price above 0 and at most 999999.99.
C25_StoredAlertValid ==
    \A a \in DOMAIN alerts :
        /\ alerts[a].duration_minutes # NULL <=> alerts[a].alert_type = "DURATION"
        /\ alerts[a].duration_minutes # NULL =>
              /\ alerts[a].duration_minutes >= 1
              /\ alerts[a].duration_minutes <= 43200
        /\ alerts[a].threshold_price > 0
        /\ alerts[a].threshold_price <= 99999999

\* ----- the triggered-alert list endpoint ----------------------------------

\* The users: two owners, a staff member, and the anonymous user of a request
\* without credentials
AnonymousUser == "anonymous"
Users == {"alice", "bob", "admin"}
is_staff(user) == user = "admin"

\* Alert.user: set at creation (perform_create) and read-only afterwards
owner == [a \in BatchIds |-> IF a = 1 THEN "alice" ELSE "bob"]

\* permission_classes = [IsAuthenticated]
IsAuthenticated(user) == user \in Users

\* The statuses of a request the permission rejects: 401 when the
\* authentication class sends a challenge header, 403 otherwise
permission_denied == {401, 403}

\* order_by('-triggered_at') of records kept in creation order
order_by_triggered_at_desc(recs) ==
    [i \in 1..Len(recs) |-> recs[Len(recs) + 1 - i]]

\* Variant of get_queryset that returns every record to every user
get_queryset_all(recs, user) ==
    order_by_triggered_at_desc(recs)

\* TriggeredAlertViewSet.get_queryset
get_queryset(recs, user) ==
    IF is_staff(user)
    THEN order_by_triggered_at_desc(recs)
    ELSE LET own(r) == owner[r.alert] = user
         IN order_by_triggered_at_desc(SelectSeq(recs, own))

\* GET /triggered/: the permission check, then TriggeredAlertViewSet.list
\* without a paginator; denied is the status of a rejected request
list(recs, user, denied) ==
    IF ~IsAuthenticated(user)
    THEN [status_code |-> denied, results |-> <<>>]
    ELSE [status_code |-> 200, results |-> get_queryset(recs, user)]

\* ----- C26 ----------------------------------------------------------------
\* The records of recs whose alert user owns, as a bag
OwnedBy(recs, user) ==
    LET own(r) == owner[r.alert] = user
    IN SelectSeq(recs, own)

\* The number of times record r occurs in the sequence s
Occurrences(s, r) == Cardinality({i \in DOMAIN s : s[i] = r})

\* C26: the list endpoint answers an authenticated non-staff user with status
\* 200 and exactly the records of the alerts that user owns (none when there
\* are none), and answers a request without credentials with 401 or 403 and
\* no record.
C26_ListOwnRecordsOnly ==
    /\ \A user \in Users : ~is_staff(user) =>
          \A denied \in permission_denied :
             LET resp == list(triggered_alerts, user, denied) IN
             /\ resp.status_code = 200
             /\ \A i \in DOMAIN resp.results : owner[resp.results[i].alert] = user
             /\ Len(resp.results) = Len(OwnedBy(triggered_alerts, user))
             /\ \A i \in DOMAIN triggered_alerts :
                   owner[triggered_alerts[i].alert] = user =>
                      Occurrences(resp.results, triggered_alerts[i])
                         = Occurrences(triggered_alerts, triggered_alerts[i])
    /\ \A denied \in permission_denied :
          LET resp == list(triggered_alerts, AnonymousUser, denied) IN
          /\ resp.status_code \in {401, 403}
          /\ resp.results = <<>>

\* The table holds a record of alice's alert and a record of bob's alert
C26_Witness ==
    /\ \E i \in DOMAIN triggered_alerts : owner[triggered_alerts[i].alert] = "alice"
    /\ \E i \in DOMAIN triggered_alerts : owner[triggered_alerts[i].alert] = "bob"
    /\ Len(list(triggered_alerts, "alice", 401).results) < Len(triggered_alerts)

\* ----- C27 ----------------------------------------------------------------
\* Alert a is inactive because its owner switched it off: the engine only
\* deactivates a THRESHOLD alert, and only together with a record
DeactivatedByOwner(a) ==
    /\ ~alerts[a].is_active
    /\ alerts[a].alert_type = "DURATION" \/ NumRecords(triggered_alerts, a) = 0

\* C27: when the owner has switched an alert off while a cycle holds a copy
\* loaded before, the cycle's evaluation of that copy leaves the stored alert
\* inactive with condition_met_since null and creates no record for it.
C27_DeactivationNotOverwritten ==
    [][\A w \in Workers : \A a \in DOMAIN alerts :
        (EvalStep(w) /\ Evaluated(w) = a /\ DeactivatedByOwner(a)) =>
            /\ ~alerts'[a].is_active
            /\ alerts'[a].condition_met_since = NULL
            /\ NumRecords(triggered_alerts', a) = NumRecords(triggered_alerts, a)]_vars

\* ----- overlapping cycles without requests --------------------------------

\* The scheduled task and a manual run overlap while the clock advances; the
\* owner sends no request and the price stays as it is, so that the condition
\* of each alert occurs once
NextRace ==
    \/ \E w \in Workers : CycleStart(w)
    \/ \E w \in Workers : ProcessAlert(w)
    \/ \E w \in Workers : CycleEnd(w)
    \/ Tick

SpecRace == InitOverlap /\ [][NextRace]_vars

\* ----- C28 ----------------------------------------------------------------
\* C28: with overlapping cycles and no reactivation by the owner, a THRESHOLD
\* alert has at most one record, and two records of a DURATION alert are never
\* closer than duration_minutes: one streak gives one record.
C28_OneRecordPerOccurrence ==
    \A a \in DOMAIN alerts :
        /\ alerts[a].alert_type = "THRESHOLD" => NumRecords(triggered_alerts, a) <= 1
        /\ alerts[a].alert_type = "DURATION" =>
              \A i, j \in DOMAIN triggered_alerts :
                 (/\ i < j
                  /\ triggered_alerts[i].alert = a
                  /\ triggered_alerts[j].alert = a)
                 => triggered_alerts[j].triggered_at - triggered_alerts[i].triggered_at
                       >= alerts[a].duration_minutes

\* ----- C29 ----------------------------------------------------------------
\* C29: every step that adds a record is an evaluation by a cycle, and the
\* record carries the id of the evaluated instance, the current time and the
\* price the evaluation read; that price satisfies the instance's comparator
\* against the instance's threshold_price, and a DURATION instance had a
\* condition_met_since at least duration_minutes before the current time.
C29_RecordJustified ==
    [][Len(triggered_alerts') > Len(triggered_alerts) =>
        /\ \E w \in Workers : EvalStep(w)
        /\ \A w \in Workers : EvalStep(w) =>
            LET inst == active_alerts[w][idx[w]]
                new == triggered_alerts'[Len(triggered_alerts')]
                tested == inst.stock_price
            IN /\ Len(triggered_alerts') = Len(triggered_alerts) + 1
               /\ new.alert = inst.id
               /\ new.triggered_at = now
               /\ new.stock_price = tested
               /\ \/ inst.condition = ">" /\ tested > inst.threshold_price
                  \/ inst.condition = "<" /\ tested < inst.threshold_price
                  \/ inst.condition = ">=" /\ tested >= inst.threshold_price
                  \/ inst.condition = "<=" /\ tested <= inst.threshold_price
               /\ inst.alert_type = "DURATION" =>
                     /\ inst.condition_met_since # NULL
                     /\ inst.condition_met_since <= now - inst.duration_minutes]_vars

\* A cycle has just created a record for a DURATION alert, and the record
\* holds the price the cycle loaded, which the stock no longer has
C29_Witness ==
    \E w \in Workers :
        /\ pc[w] = "loop"
        /\ idx[w] > 1
        /\ cycle_facts[w].created > 0
        /\ triggered_alerts # <<>>
        /\ LET last == triggered_alerts[Len(triggered_alerts)] IN
            /\ last.alert = active_alerts[w][idx[w] - 1].id
            /\ active_alerts[w][idx[w] - 1].alert_type = "DURATION"
            /\ last.stock_price = active_alerts[w][idx[w] - 1].stock_price
            /\ last.stock_price # stock_price

\* ----- C30 ----------------------------------------------------------------
\* The cycle of worker w, which is about to return, created a record for a
CycleTriggered(w, a) ==
    /\ cycle_facts[w].created > 0
    /\ \E i \in DOMAIN triggered_alerts :
          /\ triggered_alerts[i].alert = a
          /\ triggered_alerts[i].triggered_at = now

\* C30: with cycles run one after another, (1) an evaluation that creates a
\* record for a DURATION alert does so at least duration_minutes (the value
\* the evaluation works with) after every earlier record of that alert, and
\* (2) when a cycle that created a record for a DURATION alert returns, the
\* next cycle creates none for it, whatever the price and the time it runs
\* at, and whether or not the owner edits the alert in between.
C30_DurationSpacing ==
    [][/\ \A w \in Workers : EvalStep(w) =>
            LET inst == active_alerts[w][idx[w]]
                a == inst.id
            IN (/\ inst.alert_type = "DURATION"
                /\ NumRecords(triggered_alerts', a) > NumRecords(triggered_alerts, a))
               => \A i \in DOMAIN triggered_alerts :
                     triggered_alerts[i].alert = a =>
                        now - triggered_alerts[i].triggered_at >= inst.duration_minutes
       /\ \A w \in Workers : CycleReturns(w) =>
            \A a \in DOMAIN alerts :
               (alerts[a].alert_type = "DURATION" /\ CycleTriggered(w, a)) =>
                  \A p \in Prices, t \in now..MaxTime, success \in BOOLEAN :
                     /\ NumRecords(process_all_alerts(alerts', triggered_alerts',
                                                      p, t, success).recs, a)
                           = NumRecords(triggered_alerts', a)
                     /\ \A data \in update_requests :
                           NumRecords(process_all_alerts(update(alerts', a, data, p),
                                          triggered_alerts', p, t, success).recs, a)
                              = NumRecords(triggered_alerts', a)]_vars

\* A cycle has just created the second record of a DURATION alert, exactly
\* duration_minutes after the first
C30_Witness ==
    \E w \in Workers, a \in DOMAIN alerts :
        /\ pc[w] = "loop"
        /\ cycle_facts[w].created > 0
        /\ alerts[a].alert_type = "DURATION"
        /\ \E i, j \in DOMAIN triggered_alerts :
              /\ i < j
              /\ triggered_alerts[i].alert = a
              /\ triggered_alerts[j].alert = a
              /\ triggered_alerts[j].triggered_at = now
              /\ triggered_alerts[j].triggered_at
                    = triggered_alerts[i].triggered_at + alerts[a].duration_minutes

====
